---- MODULE Spec2Model ----
(***************************************************************************)
(* State-machine model of vcf_view.py: the MainWindow event handlers       *)
(* (load_vcf, search text changed, PASS checkbox toggled, row selection),  *)
(* the native VCF line parser and the table model.  The parser modelled is *)
(* parse_native, the path load_vcf takes when pysam is not installed.      *)
(*                                                                         *)
(* Text is modelled as a sequence of one-character strings, so that        *)
(* startswith, strip, split, lower, int(), float(), str() and the          *)
(* substring test are computed character by character as Python does.      *)
(* A float is modelled in fixed point, as an integer number of hundredths; *)
(* the QUAL texts of the input lines have no fraction digits.              *)
(***************************************************************************)
EXTENDS Integers, Sequences, FiniteSets, TLC

VARIABLES all_variants, filtered_variants, model_data, search_text,
          chk_pass, lbl_count, lbl_status, detail_view, picked

\* picked is the file behind the path the file dialog returns.  Under Spec the
\* dialog may return any file at every load and picked records nothing; under
\* ParseSpec one file is drawn at the start and every load reads that file.
vars == <<all_variants, filtered_variants, model_data, search_text,
          chk_pass, lbl_count, lbl_status, detail_view, picked>>

(***************************************************************************)
(* Bounds and program constants                                            *)
(***************************************************************************)
MaxLines == 2

MinCols == 8

TAB == "\t"

NL == "\n"

Whitespace == {" ", TAB, NL, "\r"}

Digits == <<"0", "1", "2", "3", "4", "5", "6", "7", "8", "9">>

UpperChars == <<"A", "C", "D", "F", "G", "P", "S", "T">>

LowerChars == <<"a", "c", "d", "f", "g", "p", "s", "t">>

(***************************************************************************)
(* Character and string helpers (Python str methods)                       *)
(***************************************************************************)
IsDigit(c) == \E i \in DOMAIN Digits : Digits[i] = c

DigitVal(c) == (CHOOSE i \in DOMAIN Digits : Digits[i] = c) - 1

LowerChar(c) ==
  IF \E i \in DOMAIN UpperChars : UpperChars[i] = c
  THEN LowerChars[CHOOSE i \in DOMAIN UpperChars : UpperChars[i] = c]
  ELSE c

\* str.lower()
Lower(s) == [i \in DOMAIN s |-> LowerChar(s[i])]

\* the Python test  q in s  on strings
Contains(s, q) ==
  \E i \in 0..(Len(s) - Len(q)) : SubSeq(s, i + 1, i + Len(q)) = q

\* str.startswith(c) for a one-character prefix
StartsWith(s, c) == Len(s) >= 1 /\ s[1] = c

\* str.strip(): drops leading and trailing whitespace, tabs included
Strip(s) ==
  LET keep == {i \in DOMAIN s : s[i] \notin Whitespace}
  IN  IF keep = {} THEN <<>>
      ELSE LET lo == CHOOSE i \in keep : \A j \in keep : i <= j
               hi == CHOOSE i \in keep : \A j \in keep : j <= i
           IN  SubSeq(s, lo, hi)

\* str.split('\t')
RECURSIVE Split(_)
Split(s) ==
  LET tabs == {i \in DOMAIN s : s[i] = TAB}
  IN  IF tabs = {} THEN <<s>>
      ELSE LET k == CHOOSE i \in tabs : \A j \in tabs : i <= j
           IN  <<SubSeq(s, 1, k - 1)>> \o Split(SubSeq(s, k + 1, Len(s)))

\* value of a digit string
RECURSIVE DigitsVal(_)
DigitsVal(s) ==
  IF s = <<>> THEN 0
  ELSE 10 * DigitsVal(SubSeq(s, 1, Len(s) - 1)) + DigitVal(s[Len(s)])

AllDigits(s) == s # <<>> /\ \A i \in DOMAIN s : IsDigit(s[i])

\* int(s) raises ValueError unless s is a decimal numeral
IntParses(s) ==
  \/ AllDigits(s)
  \/ Len(s) >= 2 /\ s[1] \in {"-", "+"} /\ AllDigits(Tail(s))

IntValue(s) ==
  IF s[1] = "-" THEN 0 - DigitsVal(Tail(s))
  ELSE IF s[1] = "+" THEN DigitsVal(Tail(s))
  ELSE DigitsVal(s)

\* str(n) for an integer n
RECURSIVE NatStr(_)
NatStr(n) ==
  IF n < 10 THEN <<Digits[n + 1]>>
  ELSE NatStr(n \div 10) \o <<Digits[(n % 10) + 1]>>

IntStr(n) == IF n < 0 THEN <<"-">> \o NatStr(0 - n) ELSE NatStr(n)

\* float(s) raises ValueError unless s is a numeral; value in hundredths
FloatParses(s) ==
  LET dots == {i \in DOMAIN s : s[i] = "."}
  IN  \/ AllDigits(s)
      \/ /\ Cardinality(dots) = 1
         /\ Len(s) >= 2
         /\ LET k == CHOOSE i \in dots : TRUE
            IN  /\ \A i \in DOMAIN s : i # k => IsDigit(s[i])
                /\ Len(s) - k <= 2

FloatValue(s) ==
  LET dots == {i \in DOMAIN s : s[i] = "."}
  IN  IF dots = {} THEN 100 * DigitsVal(s)
      ELSE LET k    == CHOOSE i \in dots : TRUE
               frac == SubSeq(s, k + 1, Len(s))
           IN  100 * DigitsVal(SubSeq(s, 1, k - 1))
               + (IF Len(frac) = 1 THEN 10 * DigitsVal(frac) ELSE DigitsVal(frac))

\* str(round(q, 2)) for a non-negative float q given in hundredths
FloatStr(q) ==
  LET whole == q \div 100
      frac  == q % 100
  IN  NatStr(whole) \o <<".">> \o
      (IF frac % 10 = 0 THEN <<Digits[(frac \div 10) + 1]>>
       ELSE <<Digits[(frac \div 10) + 1], Digits[(frac % 10) + 1]>>)

(***************************************************************************)
(* Input files: the lines a text-mode file object yields                   *)
(***************************************************************************)
RECURSIVE JoinTabs(_)
JoinTabs(fields) ==
  IF Len(fields) = 1 THEN fields[1]
  ELSE fields[1] \o <<TAB>> \o JoinTabs(Tail(fields))

MkLine(fields) == JoinTabs(fields) \o <<NL>>

\* a PASS record whose QUAL is the missing-value marker
LineDotQual ==
  MkLine(<< <<"c", "1">>, <<"1", "2">>, <<".">>, <<"A">>, <<"G">>,
            <<".">>, <<"P", "A", "S", "S">>, <<"D", "P">> >>)

\* a record with QUAL 0, a zero-padded POS and a lower-case filter
LineZeroQual ==
  MkLine(<< <<"C", "2">>, <<"0", "7">>, <<"r", "s">>, <<"A">>, <<"T">>,
            <<"0">>, <<"p", "a", "s", "s">>, <<"A", "F">> >>)

\* a record whose QUAL is not a number
LineBadQual ==
  MkLine(<< <<"c", "1">>, <<"3">>, <<".">>, <<"T">>, <<"G">>,
            <<"x">>, <<"P", "A", "S", "S">>, <<"D", "P">> >>)

\* the column header line of a VCF file
LineHeader ==
  MkLine(<< <<"#", "C">>, <<"P">>, <<"I">>, <<"R">>, <<"A">>,
            <<"Q">>, <<"F">>, <<"I">> >>)

\* a data line with only three columns
LineShort == MkLine(<< <<"c", "1">>, <<"5">>, <<".">> >>)

\* a data line whose POS is not an integer
LineBadPos ==
  MkLine(<< <<"c", "1">>, <<"x">>, <<".">>, <<"A">>, <<"G">>,
            <<"9">>, <<"P", "A", "S", "S">>, <<"D", "P">> >>)

\* a data line with eight columns, the last of them (INFO) empty
LineEmptyInfo ==
  MkLine(<< <<"c", "1">>, <<"8">>, <<".">>, <<"A">>, <<"G">>,
            <<"9">>, <<"P", "A", "S", "S">>, <<>> >>)

Lines == {LineDotQual, LineZeroQual, LineBadQual, LineHeader, LineShort,
          LineBadPos, LineEmptyInfo}

RECURSIVE SeqsUpTo(_, _)
SeqsUpTo(S, n) ==
  IF n = 0 THEN {<<>>}
  ELSE LET shorter == SeqsUpTo(S, n - 1)
       IN  shorter \cup {Append(f, l) : f \in shorter, l \in S}

Files == SeqsUpTo(Lines, MaxLines)

\* what the chosen path leads to: a readable text, or a failure to open
Inputs == [openable : {TRUE}, lines : Files]
            \cup {[openable |-> FALSE, lines |-> <<>>]}

\* texts typed into the search box
Queries == {<<>>, <<"C">>, <<"C", "2">>, <<"g">>, <<"7">>}

(***************************************************************************)
(* parse_native                                                            *)
(***************************************************************************)
PASS == <<"P", "A", "S", "S">>

\* lines 251-252: float(cols[5]) if cols[5] != '.' else 0.0, except: 0.0
QualOf(field) ==
  IF field # <<".">>
  THEN IF FloatParses(field) THEN FloatValue(field) ELSE 0
  ELSE 0

\* the dict appended for one data line
MkVariant(cols, line) ==
  [chrom    |-> cols[1],
   pos      |-> IntValue(cols[2]),
   id       |-> cols[3],
   ref      |-> cols[4],
   alt      |-> cols[5],
   qual     |-> QualOf(cols[6]),
   filter   |-> cols[7],
   info     |-> cols[8],
   raw_info |-> line]

\* ParseLoop with each record put in front of the list instead of appended
RECURSIVE ParseLoopPrepend(_, _)
ParseLoopPrepend(lines, acc) ==
  IF lines = <<>> THEN [ok |-> TRUE, recs |-> acc]
  ELSE LET line == Head(lines)
           cols == Split(Strip(line))
       IN  IF StartsWith(line, "#") THEN ParseLoopPrepend(Tail(lines), acc)
           ELSE IF Len(cols) < MinCols THEN ParseLoopPrepend(Tail(lines), acc)
           ELSE IF ~IntParses(cols[2]) THEN [ok |-> FALSE, recs |-> acc]
           ELSE ParseLoopPrepend(Tail(lines), <<MkVariant(cols, line)>> \o acc)

\* the for loop over the lines; acc is self.all_variants as built so far.
\* ok = FALSE: int(cols[1]) raised and the loop was left with acc as it was.
RECURSIVE ParseLoop(_, _)
ParseLoop(lines, acc) ==
  IF lines = <<>> THEN [ok |-> TRUE, recs |-> acc]
  ELSE LET line == Head(lines)
           cols == Split(Strip(line))
       IN  IF StartsWith(line, "#") THEN ParseLoop(Tail(lines), acc)
           ELSE IF Len(cols) < MinCols THEN ParseLoop(Tail(lines), acc)
           ELSE IF ~IntParses(cols[2]) THEN [ok |-> FALSE, recs |-> acc]
           ELSE ParseLoop(Tail(lines), Append(acc, MkVariant(cols, line)))

\* opening the file may raise before any line is read
parse_native(inp) ==
  IF ~inp.openable THEN [ok |-> FALSE, recs |-> <<>>]
  ELSE ParseLoop(inp.lines, <<>>)

\* every outcome the parse call of load_vcf can have
Outcomes == {parse_native(inp) : inp \in Inputs}

(***************************************************************************)
(* apply_filters                                                           *)
(***************************************************************************)
\* Skipped with ALT searched as well
SkippedAltSearched(v, text, show_pass) ==
  IF show_pass /\ v.filter # PASS THEN TRUE
  ELSE IF text # <<>>
       THEN /\ ~Contains(Lower(v.chrom), text)
            /\ ~Contains(IntStr(v.pos), text)
            /\ ~Contains(Lower(v.id), text)
            /\ ~Contains(Lower(v.alt), text)
            /\ ~Contains(Lower(v.info), text)
       ELSE FALSE

\* Skipped with the search test inverted: a record is dropped when it matches
SkippedInverted(v, text, show_pass) ==
  IF show_pass /\ v.filter # PASS THEN TRUE
  ELSE IF text # <<>>
       THEN \/ Contains(Lower(v.chrom), text)
            \/ Contains(IntStr(v.pos), text)
            \/ Contains(Lower(v.id), text)
            \/ Contains(Lower(v.info), text)
       ELSE FALSE

\* the two  continue  conditions of the loop body
Skipped(v, text, show_pass) ==
  IF show_pass /\ v.filter # PASS THEN TRUE
  ELSE IF text # <<>>
       THEN /\ ~Contains(Lower(v.chrom), text)
            /\ ~Contains(IntStr(v.pos), text)
            /\ ~Contains(Lower(v.id), text)
            /\ ~Contains(Lower(v.info), text)
       ELSE FALSE

RECURSIVE FilterLoop(_, _, _)
FilterLoop(variants, text, show_pass) ==
  IF variants = <<>> THEN <<>>
  ELSE LET rest == FilterLoop(Tail(variants), text, show_pass)
       IN  IF Skipped(Head(variants), text, show_pass) THEN rest
           ELSE <<Head(variants)>> \o rest

\* apply_filters without the update of the count label
apply_filters_no_label(variants, typed, checked) ==
  /\ filtered_variants' = FilterLoop(variants, Lower(typed), checked)
  /\ model_data' = filtered_variants'
  /\ lbl_count' = lbl_count

\* typed is search_input.text(), checked is chk_pass.isChecked()
apply_filters(variants, typed, checked) ==
  /\ filtered_variants' = FilterLoop(variants, Lower(typed), checked)
  /\ model_data' = filtered_variants'
  /\ lbl_count' = Len(filtered_variants')

(***************************************************************************)
(* VcfTableModel                                                           *)
(***************************************************************************)
rowCount == Len(model_data)

\* data(index, DisplayRole) for a row dict and a column 0..7
data(row_data, col) ==
  CASE col = 0 -> row_data.chrom
    [] col = 1 -> IntStr(row_data.pos)
    [] col = 2 -> IF row_data.id # <<>> THEN row_data.id ELSE <<".">>
    [] col = 3 -> row_data.ref
    [] col = 4 -> row_data.alt
    [] col = 5 -> IF row_data.qual # 0 THEN FloatStr(row_data.qual) ELSE <<".">>
    [] col = 6 -> row_data.filter
    [] col = 7 -> row_data.info

(***************************************************************************)
(* The window and its event handlers                                       *)
(***************************************************************************)
Window ==
  /\ all_variants = <<>>
  /\ filtered_variants = <<>>
  /\ model_data = <<>>
  /\ search_text = <<>>
  /\ chk_pass = FALSE
  /\ lbl_count = 0
  /\ lbl_status = "Ready"
  /\ detail_view = [kind |-> "placeholder"]

\* the file dialog returned a path; parsed is what the parse call then does:
\* the records it appends to all_variants and whether it returns or raises.
\* The "Parsing..." status and processEvents() come before all_variants is
\* reset, so a handler run from there sees the state as it was before the load.
load_vcf(parsed) ==
  /\ all_variants' = parsed.recs
  /\ IF parsed.ok
     THEN /\ apply_filters(parsed.recs, search_text, chk_pass)
          /\ lbl_status' = "Loaded"
          /\ UNCHANGED detail_view
     ELSE /\ lbl_status' = "Error loading file"
          /\ detail_view' = [kind |-> "error"]
          /\ UNCHANGED <<filtered_variants, model_data, lbl_count>>
  /\ UNCHANGED <<search_text, chk_pass, picked>>

\* the file dialog was dismissed: load_vcf returns at once
LoadCancelled == UNCHANGED vars

\* search_input.textChanged
SearchTextChanged ==
  \E typed \in Queries :
    /\ typed # search_text
    /\ search_text' = typed
    /\ apply_filters(all_variants, typed, chk_pass)
    /\ UNCHANGED <<all_variants, chk_pass, lbl_status, detail_view, picked>>

\* chk_pass.stateChanged
PassToggled ==
  /\ chk_pass' = ~chk_pass
  /\ apply_filters(all_variants, search_text, chk_pass')
  /\ UNCHANGED <<all_variants, search_text, lbl_status, detail_view, picked>>

\* a row of the table was selected
on_selection_changed ==
  \E row \in 1..rowCount :
    /\ detail_view' = [kind |-> "details", variant |-> model_data[row]]
    /\ UNCHANGED <<all_variants, filtered_variants, model_data, search_text,
                   chk_pass, lbl_count, lbl_status, picked>>

(***************************************************************************)
(* Spec: a session in which every load may be handed any file              *)
(***************************************************************************)
Init == Window /\ picked = "any"

LoadVcf == \E parsed \in Outcomes : load_vcf(parsed)

Next ==
  \/ LoadVcf
  \/ LoadCancelled
  \/ SearchTextChanged
  \/ PassToggled
  \/ on_selection_changed

Spec == Init /\ [][Next]_vars

(***************************************************************************)
(* ParseSpec: a session on one file, drawn at the start                    *)
(***************************************************************************)
InitParse == Window /\ picked \in Inputs

LoadPicked == load_vcf(parse_native(picked))

NextParse ==
  \/ LoadPicked
  \/ LoadCancelled
  \/ SearchTextChanged
  \/ PassToggled
  \/ on_selection_changed

ParseSpec == InitParse /\ [][NextParse]_vars

(***************************************************************************)
(* Properties                                                              *)
(***************************************************************************)
\* s is t with some elements left out, the rest in the order of t
RECURSIVE IsSubsequence(_, _)
IsSubsequence(s, t) ==
  IF s = <<>> THEN TRUE
  ELSE IF t = <<>> THEN FALSE
  ELSE IF Head(s) = Head(t) THEN IsSubsequence(Tail(s), Tail(t))
  ELSE IsSubsequence(s, Tail(t))

\* the visible set the filter yields for a query and a PASS-only flag
Visible(variants, query, passOnly) == FilterLoop(variants, Lower(query), passOnly)

\* the source lines of a list of records
RawLines(variants) == [i \in DOMAIN variants |-> variants[i].raw_info]

\* the tab-separated fields of a line, its line terminator apart
FieldsOf(line) ==
  Split(IF line # <<>> /\ line[Len(line)] = NL
        THEN SubSeq(line, 1, Len(line) - 1) ELSE line)

\* the QUAL column of the line a record was parsed from
RawQual(v) == FieldsOf(v.raw_info)[6]

\* a failing load: the parse call raised
FailedLoad == \E parsed \in Outcomes : ~parsed.ok /\ load_vcf(parsed)

\* C1: a load_vcf event that fails leaves all_variants exactly as it was
\* before the event.
FailedLoadKeepsRecords == [][FailedLoad => all_variants' = all_variants]_vars

\* C2: all_variants is always the initial empty list or the complete output of
\* a parse that finished without raising; when the parse of the file raises,
\* no record of that file is in all_variants or becomes visible.
OnlyCompleteParses ==
  LET parsed == parse_native(picked)
  IN  /\ \/ all_variants = <<>>
         \/ parsed.ok /\ all_variants = parsed.recs
      /\ ~parsed.ok => filtered_variants = <<>>

\* a data line with eight fields or more whose POS is an integer
WellFormedLine(line) ==
  /\ ~StartsWith(line, "#")
  /\ Len(FieldsOf(line)) >= MinCols
  /\ IntParses(FieldsOf(line)[2])

\* C3: once a file that can be opened has been loaded, the status is Loaded
\* and every well-formed data line of the file has its record in all_variants,
\* whatever malformed lines the file holds besides.
MalformedLinesTolerated ==
  (picked.openable /\ lbl_status # "Ready") =>
     /\ lbl_status = "Loaded"
     /\ \A i \in DOMAIN picked.lines :
          WellFormedLine(picked.lines[i]) =>
             \E j \in DOMAIN all_variants :
                all_variants[j].raw_info = picked.lines[i]

\* C4: after every handler the visible set and the table's backing data are
\* the filter applied to all_variants under the current search text and flag.
VisibleSetFresh ==
  /\ filtered_variants = Visible(all_variants, search_text, chk_pass)
  /\ model_data = filtered_variants

\* the inclusion rule of C5 for one record
IncludedByRule(v, query, passOnly) ==
  /\ passOnly => v.filter = PASS
  /\ query # <<>> =>
       \E field \in {v.chrom, IntStr(v.pos), v.id, v.info} :
          Contains(Lower(field), Lower(query))

SelectByRule(variants, query, passOnly) ==
  LET Test(v) == IncludedByRule(v, query, passOnly)
  IN  SelectSeq(variants, Test)

\* C5: apply_filters keeps a record iff (PASS-only is off or filter is exactly
\* PASS) and (the query is empty or occurs, ignoring case, in chrom, the
\* decimal pos, id or info); ref, alt and filter are never searched.
FilterMatchesRule ==
  /\ \A query \in Queries : \A passOnly \in BOOLEAN :
       Visible(all_variants, query, passOnly)
         = SelectByRule(all_variants, query, passOnly)
  /\ lbl_status = "Loaded" =>
       filtered_variants = SelectByRule(all_variants, search_text, chk_pass)

\* a query that occurs in ALT only has hidden both loaded records
FilterMatchesRuleWitness ==
  /\ lbl_status = "Loaded"
  /\ Len(all_variants) = 2
  /\ search_text = <<"g">>
  /\ \A i \in DOMAIN all_variants :
       Contains(Lower(all_variants[i].alt), <<"g">>)
  /\ filtered_variants = <<>>

\* the data lines as the original C6 counts them
ClaimedDataLine(line) == ~StartsWith(line, "#") /\ Len(FieldsOf(line)) >= MinCols

\* the data lines once leading and trailing whitespace is stripped
StrippedDataLine(line) ==
  ~StartsWith(line, "#") /\ Len(Split(Strip(line))) >= MinCols

\* C6 as stated: a file that parses yields one record per line that does not
\* begin with '#' and has at least 8 tab-separated fields, in line order.
OneRecordPerDataLine ==
  lbl_status = "Loaded" =>
     RawLines(all_variants) = SelectSeq(picked.lines, ClaimedDataLine)

\* C6 as amended: a file that parses yields one record per line that does not
\* begin with '#' and has at least 8 tab-separated fields after its leading
\* and trailing whitespace is stripped, none for any other line, in line
\* order, duplicates kept.
OneRecordPerStrippedDataLine ==
  lbl_status = "Loaded" =>
     RawLines(all_variants) = SelectSeq(picked.lines, StrippedDataLine)

\* the file of one valid line and one three-column line was loaded: one record
OneRecordPerStrippedDataLineWitness ==
  /\ lbl_status = "Loaded"
  /\ picked.lines = <<LineDotQual, LineShort>>
  /\ Len(all_variants) = 1

\* C7: a QUAL of "." is stored as a value other than that of a QUAL of 0, and
\* the QUAL cell shows "." for the records without a QUAL and for no other.
AbsentQualDistinctFromZero ==
  /\ \A i, j \in DOMAIN all_variants :
       (RawQual(all_variants[i]) = <<".">> /\ RawQual(all_variants[j]) = <<"0">>)
          => all_variants[i].qual # all_variants[j].qual
  /\ \A i \in DOMAIN model_data :
       (data(model_data[i], 5) = <<".">>)
          <=> (RawQual(model_data[i]) = <<".">> \/ ~FloatParses(RawQual(model_data[i])))

\* C8: filtered_variants is always a subsequence of all_variants.
VisibleIsSubsequence == IsSubsequence(filtered_variants, all_variants)

\* C9: over the loaded records, turning PASS-only on never adds a visible
\* record, and neither does replacing a non-empty query by one that contains
\* it: the new visible set is a subsequence of the old.
FilterMonotone ==
  /\ \A query \in Queries :
       IsSubsequence(Visible(all_variants, query, TRUE),
                     Visible(all_variants, query, FALSE))
  /\ \A q1, q2 \in Queries : \A passOnly \in BOOLEAN :
       (q1 # <<>> /\ Contains(q2, q1)) =>
          IsSubsequence(Visible(all_variants, q2, passOnly),
                        Visible(all_variants, q1, passOnly))

\* the longer query is in the search box and shows fewer of the loaded records
\* than the shorter one would, and PASS-only would hide one more
FilterMonotoneWitness ==
  /\ lbl_status = "Loaded"
  /\ search_text = <<"C", "2">>
  /\ ~chk_pass
  /\ filtered_variants = Visible(all_variants, search_text, chk_pass)
  /\ Len(filtered_variants) < Len(Visible(all_variants, <<"C">>, FALSE))
  /\ Len(Visible(all_variants, search_text, TRUE)) < Len(filtered_variants)

\* C10: the count in the label, the table model's row count and the length of
\* filtered_variants agree, and the model's backing list is filtered_variants,
\* so every selectable row is an index of it.
CountMatchesModel ==
  /\ lbl_count = rowCount
  /\ rowCount = Len(filtered_variants)
  /\ model_data = filtered_variants
  /\ \A row \in 1..lbl_count : row \in DOMAIN filtered_variants

\* a load has failed while a filtered, non-empty table was on display
CountMatchesModelWitness ==
  /\ lbl_status = "Error loading file"
  /\ search_text # <<>>
  /\ lbl_count > 0
  /\ all_variants = <<>>

====
